---- MODULE Spec2Model ----
(***************************************************************************)
(* ABAP CO-PA remediator (SAP Note 3320010), src/app/main.py.              *)
(*                                                                         *)
(* remediate_copa walks a list of units.  For every unit it builds the     *)
(* declaration map (extract_variable_types), collects the IS [NOT] INITIAL *)
(* checks on variables typed rkeobjnr (find_paobjnr_usage) and the uses of *)
(* the retired CDS field (find_deprecated_cds_fields), and attaches the    *)
(* findings to a JSON round trip of the unit.                              *)
(*                                                                         *)
(* Source texts are TLA+ strings; the three regular expressions are        *)
(* matched character by character, offsets are Python's (0-based,          *)
(* half-open).                                                             *)
(***************************************************************************)
EXTENDS Integers, Sequences, FiniteSets, TLC

(***************************************************************************)
(* The state of a request to remediate_copa.                               *)
(***************************************************************************)

VARIABLES
    units,              \* the argument of remediate_copa
    pc,                 \* the place of control in remediate_copa
    idx,                \* the position in units of the loop variable u
    src,                \* local src
    var_types,          \* local var_types
    paobjnr_matches,    \* local paobjnr_matches
    cds_field_matches,  \* local cds_field_matches
    results,            \* local results
    response,           \* what the request returned, None while it runs
    previous            \* what the request before this one returned

vars ==
    <<units, pc, idx, src, var_types, paobjnr_matches, cds_field_matches,
      results, response, previous>>

(***************************************************************************)
(* Characters and character classes (Python re, str patterns).             *)
(***************************************************************************)

\* The character of s at 0-based offset i; "" outside s.
CharAt(s, i) == IF i >= 0 /\ i < Len(s) THEN SubSeq(s, i + 1, i + 1) ELSE ""

\* s[i:j] of Python, for 0 <= i <= j <= len(s).
Slice(s, i, j) == SubSeq(s, i + 1, j)

UpperLetters ==
    {"A", "B", "C", "D", "E", "F", "G", "H", "I", "J", "K", "L", "M",
     "N", "O", "P", "Q", "R", "S", "T", "U", "V", "W", "X", "Y", "Z"}

LowerLetters ==
    {"a", "b", "c", "d", "e", "f", "g", "h", "i", "j", "k", "l", "m",
     "n", "o", "p", "q", "r", "s", "t", "u", "v", "w", "x", "y", "z"}

Digits == {"0", "1", "2", "3", "4", "5", "6", "7", "8", "9"}

\* \w
IsWordChar(c) == c \in UpperLetters \cup LowerLetters \cup Digits \cup {"_"}

\* \s
IsSpaceChar(c) == c \in {" ", "\t", "\n", "\r", "\f"}

\* str.lower() of one character.
LowerChar(c) ==
    CASE c = "A" -> "a" [] c = "B" -> "b" [] c = "C" -> "c" [] c = "D" -> "d"
      [] c = "E" -> "e" [] c = "F" -> "f" [] c = "G" -> "g" [] c = "H" -> "h"
      [] c = "I" -> "i" [] c = "J" -> "j" [] c = "K" -> "k" [] c = "L" -> "l"
      [] c = "M" -> "m" [] c = "N" -> "n" [] c = "O" -> "o" [] c = "P" -> "p"
      [] c = "Q" -> "q" [] c = "R" -> "r" [] c = "S" -> "s" [] c = "T" -> "t"
      [] c = "U" -> "u" [] c = "V" -> "v" [] c = "W" -> "w" [] c = "X" -> "x"
      [] c = "Y" -> "y" [] c = "Z" -> "z" [] OTHER -> c

\* str.lower()
RECURSIVE Lower(_)
Lower(s) ==
    IF s = "" THEN ""
    ELSE LowerChar(SubSeq(s, 1, 1)) \o Lower(SubSeq(s, 2, Len(s)))

\* A literal of the pattern at offset i, under re.IGNORECASE: the characters
\* from the k-th on agree up to letter case.
RECURSIVE LitFrom(_, _, _, _)
LitFrom(s, i, lit, k) ==
    \/ k > Len(lit)
    \/ /\ LowerChar(CharAt(s, i + k - 1)) = LowerChar(SubSeq(lit, k, k))
       /\ LitFrom(s, i, lit, k + 1)

LitAt(s, i, lit) == i + Len(lit) <= Len(s) /\ LitFrom(s, i, lit, 1)

\* \b at offset i: exactly one of the characters around i is a word character.
WordBoundary(s, i) == IsWordChar(CharAt(s, i - 1)) # IsWordChar(CharAt(s, i))

\* The end of the longest run of word characters starting at i (greedy \w*).
RECURSIVE WordRun(_, _)
WordRun(s, i) == IF IsWordChar(CharAt(s, i)) THEN WordRun(s, i + 1) ELSE i

\* The end of the longest run of white space starting at i (greedy \s*).
RECURSIVE SpaceRun(_, _)
SpaceRun(s, i) == IF IsSpaceChar(CharAt(s, i)) THEN SpaceRun(s, i + 1) ELSE i

\* No match of a pattern at an offset.
NoMatch == [ok |-> FALSE]

(***************************************************************************)
(* The three patterns.  Each XxxAt(s, i) is the match the backtracking     *)
(* matcher finds when it is anchored at offset i, or NoMatch.  Every       *)
(* repetition is greedy; a shorter repetition never leads to a match here, *)
(* because the item after \w+ is white space, and the item after \s+ or    *)
(* \s* is a letter.                                                        *)
(***************************************************************************)

\* (?P<full>(?P<var>\w+)\s+IS\s+(?P<negation>NOT\s+)?INITIAL)
PAOBJNR_INITIAL_RE_At(s, i) ==
    LET v == WordRun(s, i)             \* end of (?P<var>\w+)
        a == SpaceRun(s, v)            \* end of \s+
        b == SpaceRun(s, a + 2)        \* end of IS\s+
        c == SpaceRun(s, b + 3)        \* end of (?P<negation>NOT\s+)
    IN  IF ~(v > i /\ a > v /\ LitAt(s, a, "IS") /\ b > a + 2) THEN NoMatch
        ELSE IF LitAt(s, b, "NOT") /\ c > b + 3 /\ LitAt(s, c, "INITIAL")
             THEN [ok |-> TRUE, start |-> i, end |-> c + 7,
                   var |-> <<i, v>>, negation |-> <<b, c>>]
        ELSE IF LitAt(s, b, "INITIAL")
             THEN [ok |-> TRUE, start |-> i, end |-> b + 7,
                   var |-> <<i, v>>, negation |-> <<-1, -1>>]
        ELSE NoMatch

\* \bDATA:\s*(?P<var>\w+)\s+TYPE\s+(?P<type>\w+)\s*[\.\,]?
DATA_DECL_RE_At(s, i) ==
    LET a == SpaceRun(s, i + 5)        \* end of DATA:\s*
        v == WordRun(s, a)             \* end of (?P<var>\w+)
        b == SpaceRun(s, v)            \* end of \s+
        c == SpaceRun(s, b + 4)        \* end of TYPE\s+
        t == WordRun(s, c)             \* end of (?P<type>\w+)
        d == SpaceRun(s, t)            \* end of \s*
        e == IF CharAt(s, d) \in {".", ","} THEN d + 1 ELSE d
    IN  IF /\ WordBoundary(s, i)
           /\ LitAt(s, i, "DATA:")
           /\ v > a
           /\ b > v
           /\ LitAt(s, b, "TYPE")
           /\ c > b + 4
           /\ t > c
        THEN [ok |-> TRUE, start |-> i, end |-> e,
              var |-> <<a, v>>, type |-> <<c, t>>]
        ELSE NoMatch

\* CDS_FIELD_RE without the \b that closes it.
CDS_FIELD_RE_At_Open(s, i) ==
    IF WordBoundary(s, i) /\ LitAt(s, i, "ProfitabilitySegment")
    THEN [ok |-> TRUE, start |-> i, end |-> i + 20]
    ELSE NoMatch

\* (?P<full>\bProfitabilitySegment\b)
CDS_FIELD_RE_At(s, i) ==
    IF /\ WordBoundary(s, i)
       /\ LitAt(s, i, "ProfitabilitySegment")
       /\ WordBoundary(s, i + 20)
    THEN [ok |-> TRUE, start |-> i, end |-> i + 20]
    ELSE NoMatch

MatchAt(re, s, i) ==
    CASE re = "PAOBJNR_INITIAL_RE" -> PAOBJNR_INITIAL_RE_At(s, i)
      [] re = "DATA_DECL_RE" -> DATA_DECL_RE_At(s, i)
      [] re = "CDS_FIELD_RE" -> CDS_FIELD_RE_At(s, i)

\* re.finditer: the matches from left to right, each search starting where
\* the previous match ended (no pattern here matches the empty string).
RECURSIVE FindIterFrom(_, _, _)
FindIterFrom(re, s, pos) ==
    IF pos >= Len(s) THEN <<>>
    ELSE LET m == MatchAt(re, s, pos)
         IN  IF m.ok THEN <<m>> \o FindIterFrom(re, s, m.end)
             ELSE FindIterFrom(re, s, pos + 1)

FindIter(re, s) == FindIterFrom(re, s, 0)

\* m.group(name) and m.span("full").
Group(s, span) == Slice(s, span[1], span[2])

(***************************************************************************)
(* Python values and the JSON round trip of a unit (main.py line 151).     *)
(***************************************************************************)

None == [t |-> "NoneType"]
PyStr(s) == [t |-> "str", v |-> s]
PyInt(n) == [t |-> "int", v |-> n]
PyList(xs) == [t |-> "list", v |-> xs]

\* The fields of class Unit, in declaration order.
UnitFields ==
    <<"pgm_name", "inc_name", "type", "name", "class_implementation",
      "start_line", "end_line", "code">>

DigitChars == <<"0", "1", "2", "3", "4", "5", "6", "7", "8", "9">>

\* The decimal digits of n >= 0.
RECURSIVE NatToStr(_)
NatToStr(n) ==
    IF n < 10 THEN DigitChars[n + 1]
    ELSE NatToStr(n \div 10) \o DigitChars[(n % 10) + 1]

IntToStr(n) == IF n < 0 THEN "-" \o NatToStr(-n) ELSE NatToStr(n)

DigitValue(c) == CHOOSE d \in 0..9 : DigitChars[d + 1] = c

\* The number a string of decimal digits denotes, continuing from acc.
RECURSIVE StrToNat(_, _)
StrToNat(s, acc) ==
    IF s = "" THEN acc
    ELSE StrToNat(SubSeq(s, 2, Len(s)), 10 * acc + DigitValue(SubSeq(s, 1, 1)))

StrToInt(s) ==
    IF SubSeq(s, 1, 1) = "-" THEN -StrToNat(SubSeq(s, 2, Len(s)), 0)
    ELSE StrToNat(s, 0)

\* One character inside a JSON string token.
JsonEscapeChar(c) ==
    CASE c = "\"" -> "\\\""
      [] c = "\\" -> "\\\\"
      [] c = "\n" -> "\\n"
      [] c = "\t" -> "\\t"
      [] c = "\r" -> "\\r"
      [] c = "\f" -> "\\f"
      [] OTHER -> c   \* \u00XX for the other control characters, not modelled

RECURSIVE JsonEscape(_)
JsonEscape(s) ==
    IF s = "" THEN ""
    ELSE JsonEscapeChar(SubSeq(s, 1, 1)) \o JsonEscape(SubSeq(s, 2, Len(s)))

\* The character an escape \c stands for.
JsonUnescapeChar(c) ==
    CASE c = "n" -> "\n"
      [] c = "t" -> "\t"
      [] c = "r" -> "\r"
      [] c = "f" -> "\f"
      [] OTHER -> c

\* The text of a JSON string token's inside.
RECURSIVE JsonUnescape(_)
JsonUnescape(s) ==
    IF s = "" THEN ""
    ELSE IF SubSeq(s, 1, 1) = "\\"
         THEN JsonUnescapeChar(SubSeq(s, 2, 2)) \o JsonUnescape(SubSeq(s, 3, Len(s)))
         ELSE SubSeq(s, 1, 1) \o JsonUnescape(SubSeq(s, 2, Len(s)))

\* The JSON token of a field's value.
JsonToken(x) ==
    CASE x.t = "NoneType" -> "null"
      [] x.t = "int" -> IntToStr(x.v)
      [] x.t = "str" -> "\"" \o JsonEscape(x.v) \o "\""

\* The Python value of a JSON token.
JsonValue(tok) ==
    IF tok = "null" THEN None
    ELSE IF SubSeq(tok, 1, 1) = "\""
         THEN PyStr(JsonUnescape(SubSeq(tok, 2, Len(tok) - 1)))
         ELSE PyInt(StrToInt(tok))

\* u.model_dump_json(exclude_none=True): the fields that are None left out.
model_dump_json_ExcludeNone(u) ==
    SelectSeq([k \in 1..Len(UnitFields) |->
                  [key |-> UnitFields[k], token |-> JsonToken(u[UnitFields[k]])]],
              LAMBDA member : member.token # "null")

\* u.model_dump_json(): the members of the JSON object, every field of the
\* unit in declaration order, each with its value's token.
model_dump_json(u) ==
    [k \in 1..Len(UnitFields) |->
        [key |-> UnitFields[k], token |-> JsonToken(u[UnitFields[k]])]]

\* json.loads: the dict of the members.
json_loads(members) ==
    [key \in {members[k].key : k \in 1..Len(members)} |->
        LET k == CHOOSE j \in 1..Len(members) :
                    /\ members[j].key = key
                    /\ \A i \in (j + 1)..Len(members) : members[i].key # key
        IN  JsonValue(members[k].token)]

\* obj[key] = value on a dict.
DictSet(d, key, value) ==
    [k \in DOMAIN d \cup {key} |-> IF k = key THEN value ELSE d[k]]

\* d.get(key)
DictGet(d, key) == IF key \in DOMAIN d THEN PyStr(d[key]) ELSE None

\* {}
EmptyDict == [k \in {} |-> ""]

\* var_types of line 65 as one dict of the module, filled by every call.
NewVarTypes_Shared == var_types

\* var_types = {} (line 65): a dict of the call's own.
NewVarTypes == EmptyDict

(***************************************************************************)
(* The functions of main.py.                                               *)
(***************************************************************************)

\* suggest_paobjnr_replacement with the two literals exchanged.
suggest_paobjnr_replacement_Swapped(var, is_negated) ==
    "cl_fco_copa_paobjnr=>is_initial( " \o var \o " ) = "
        \o (IF is_negated THEN "abap_true" ELSE "abap_false")

suggest_paobjnr_replacement(var, is_negated) ==
    "cl_fco_copa_paobjnr=>is_initial( " \o var \o " ) = "
        \o (IF is_negated THEN "abap_false" ELSE "abap_true")

\* The loop of extract_variable_types keeping the first type of a name
\* (var_types.setdefault(var_name, var_type)).
RECURSIVE ExtractLoop_FirstWins(_, _, _, _)
ExtractLoop_FirstWins(code, ms, k, types) ==
    IF k > Len(ms) THEN types
    ELSE LET var_name == Lower(Group(code, ms[k].var))
             var_type == Lower(Group(code, ms[k].type))
         IN  ExtractLoop_FirstWins(
                 code, ms, k + 1,
                 [n \in DOMAIN types \cup {var_name} |->
                     IF n \in DOMAIN types THEN types[n] ELSE var_type])

\* The loop of extract_variable_types over the matches from the k-th on.
RECURSIVE ExtractLoop(_, _, _, _)
ExtractLoop(code, ms, k, types) ==
    IF k > Len(ms) THEN types
    ELSE LET var_name == Lower(Group(code, ms[k].var))
             var_type == Lower(Group(code, ms[k].type))
         IN  ExtractLoop(code, ms, k + 1, DictSet(types, var_name, var_type))

extract_variable_types(code) ==
    ExtractLoop(code, FindIter("DATA_DECL_RE", code), 1, NewVarTypes)

\* The body of the loop of find_paobjnr_usage judging a check by the
\* declarations that stand before it in the text.
PaobjnrUsageOf_DeclaredBefore(txt, types, m) ==
    LET var == Group(txt, m.var)
        var_type == DictGet(extract_variable_types(Slice(txt, 0, m.start)),
                            Lower(var))
        is_negated == m.negation[1] >= 0 /\ Group(txt, m.negation) # ""
    IN  IF var_type # PyStr("rkeobjnr") THEN <<>>
        ELSE <<[full |-> Slice(txt, m.start, m.end),
                var |-> var,
                negated |-> is_negated,
                suggested_statement |-> suggest_paobjnr_replacement(var, is_negated),
                span |-> <<m.start, m.end>>]>>

\* The body of the loop of find_paobjnr_usage without lines 80-81: every
\* syntactic match is reported.
PaobjnrUsageOf_Unfiltered(txt, types, m) ==
    LET var == Group(txt, m.var)
        is_negated == m.negation[1] >= 0 /\ Group(txt, m.negation) # ""
    IN  <<[full |-> Slice(txt, m.start, m.end),
           var |-> var,
           negated |-> is_negated,
           suggested_statement |-> suggest_paobjnr_replacement(var, is_negated),
           span |-> <<m.start, m.end>>]>>

\* The body of the loop of find_paobjnr_usage for one match: the match dict
\* it appends, or nothing.
PaobjnrUsageOf(txt, types, m) ==
    LET var == Group(txt, m.var)
        var_lower == Lower(var)
        var_type == DictGet(types, var_lower)
        is_negated == m.negation[1] >= 0 /\ Group(txt, m.negation) # ""
    IN  IF var_type # PyStr("rkeobjnr") THEN <<>>
        ELSE <<[full |-> Slice(txt, m.start, m.end),
                var |-> var,
                negated |-> is_negated,
                suggested_statement |-> suggest_paobjnr_replacement(var, is_negated),
                span |-> <<m.start, m.end>>]>>

RECURSIVE PaobjnrLoop(_, _, _, _)
PaobjnrLoop(txt, types, ms, k) ==
    IF k > Len(ms) THEN <<>>
    ELSE PaobjnrUsageOf(txt, types, ms[k]) \o PaobjnrLoop(txt, types, ms, k + 1)

find_paobjnr_usage(txt, types) ==
    PaobjnrLoop(txt, types, FindIter("PAOBJNR_INITIAL_RE", txt), 1)

find_deprecated_cds_fields(txt) ==
    LET ms == FindIter("CDS_FIELD_RE", txt)
    IN  [k \in 1..Len(ms) |->
            [full |-> Slice(txt, ms[k].start, ms[k].end),
             suggested_statement |-> "ProfitabilitySegment_2",
             span |-> <<ms[k].start, ms[k].end>>]]

\* src = u.code without the default of line 110.
SrcOf_NoDefault(u) == u.code

\* src = u.code or ""
SrcOf(u) == IF u.code = None \/ u.code = PyStr("") THEN PyStr("") ELSE u.code

\* Pattern.finditer(string) raises TypeError unless string is a str.
IsText(x) == x.t = "str"

\* PaobjnrMetadata with the span of the group var for the span of full.
PaobjnrMetadata_VarSpan(m) ==
    [type |-> "PAOBJNR_CHECK",
     table |-> "None",
     target_type |-> "None",
     target_name |-> "None",
     start_char_in_unit |-> m.span[1],
     end_char_in_unit |-> m.span[1] + Len(m.var),
     used_fields |-> <<m.var>>,
     ambiguous |-> FALSE,
     suggested_statement |-> m.suggested_statement,
     suggested_fields |-> None]

\* The metadata entry of one element of paobjnr_matches.
PaobjnrMetadata(m) ==
    [type |-> "PAOBJNR_CHECK",
     table |-> "None",
     target_type |-> "None",
     target_name |-> "None",
     start_char_in_unit |-> m.span[1],
     end_char_in_unit |-> m.span[2],
     used_fields |-> <<m.var>>,
     ambiguous |-> FALSE,
     suggested_statement |-> m.suggested_statement,
     suggested_fields |-> None]

\* The metadata entry of one element of cds_field_matches.
CdsFieldMetadata(m) ==
    [type |-> "CDS_FIELD_REPLACEMENT",
     table |-> "None",
     target_type |-> "CDS_VIEW",
     target_name |-> "Unknown",
     start_char_in_unit |-> m.span[1],
     end_char_in_unit |-> m.span[2],
     used_fields |-> <<"ProfitabilitySegment">>,
     ambiguous |-> FALSE,
     suggested_statement |-> m.suggested_statement,
     suggested_fields |-> PyList(<<"ProfitabilitySegment_2">>)]

\* metadata with the two loops in the other order.
Metadata_FieldsFirst(pms, cms) ==
    [k \in 1..Len(cms) |-> CdsFieldMetadata(cms[k])]
        \o [k \in 1..Len(pms) |-> PaobjnrMetadata(pms[k])]

\* metadata after the two loops over the matches.
Metadata(pms, cms) ==
    [k \in 1..Len(pms) |-> PaobjnrMetadata(pms[k])]
        \o [k \in 1..Len(cms) |-> CdsFieldMetadata(cms[k])]

\* obj = json.loads(u.model_dump_json()); obj["copa_usage"] = metadata
AnnotatedUnit(u, metadata) ==
    DictSet(json_loads(model_dump_json(u)), "copa_usage", metadata)

(***************************************************************************)
(* Inputs.  A source text is a concatenation of phrases; the phrases put   *)
(* declarations, checks and field names next to each other with and        *)
(* without separators, in several letter cases.                            *)
(***************************************************************************)

\* The most phrases of the text of the unit of a request of one unit.
MaxPhrases == 3

\* The most units of a request of several units.
MaxUnits == 2

Phrases ==
    {" DATA: lv TYPE rkeobjnr",
     "data:LV type RKEOBJNR,",
     " DATA: lv TYPE i.",
     " lv IS INITIAL",
     "Lv is\nNOT  initial",
     "ProfitabilitySegment",
     " profitabilitysegment.",
     "_2",
     "x"}

\* The texts of at most n phrases.
RECURSIVE TextsOf(_)
TextsOf(n) ==
    IF n = 0 THEN {""}
    ELSE LET shorter == TextsOf(n - 1)
         IN  shorter \cup {t \o p : t \in shorter, p \in Phrases}

\* The fields other than code of a unit that leaves the optional ones out.
ProgramIdent ==
    [pgm_name |-> PyStr("ZCOPA"), inc_name |-> PyStr("ZCOPA_TOP"),
     type |-> PyStr("PROG"), name |-> None, class_implementation |-> None,
     start_line |-> None, end_line |-> None]

\* The fields other than code of a unit that sets them all.
MethodIdent ==
    [pgm_name |-> PyStr("ZCL_\"X\""), inc_name |-> PyStr(""),
     type |-> PyStr("CLAS"), name |-> PyStr("GET\\SEGMENT"),
     class_implementation |-> PyStr("ZCL_X"),
     start_line |-> PyInt(-1), end_line |-> PyInt(120)]

Idents == {ProgramIdent, MethodIdent}

UnitOf(ident, code) ==
    [k \in DOMAIN ident \cup {"code"} |-> IF k = "code" THEN code ELSE ident[k]]

\* code: Optional[str], over the texts T.
CodesOf(T) == {None} \cup {PyStr(t) : t \in T}

\* The texts of the scenarios of the specification.
Scenarios ==
    {"DATA: lv_obj TYPE rkeobjnr. IF lv_obj IS NOT INITIAL.",
     "IF lv_x IS INITIAL.",
     "SELECT ProfitabilitySegment FROM t."}

\* The units of a request of several units: no text, the empty text, one
\* phrase or one scenario each.
ShortUnits ==
    {UnitOf(ident, code) :
        ident \in Idents, code \in CodesOf({""} \cup Phrases \cup Scenarios)}

\* The lists of at most n elements of S.
RECURSIVE ListsOf(_, _)
ListsOf(S, n) ==
    IF n = 0 THEN {<<>>}
    ELSE LET shorter == ListsOf(S, n - 1)
         IN  shorter \cup {Append(l, x) : l \in shorter, x \in S}

\* The state at the entry of remediate_copa(us): results = [] (line 107), the
\* locals of the loop not bound yet.
Entry(us) ==
    /\ units = us
    /\ pc = "extract"
    /\ idx = 1
    /\ src = None
    /\ var_types = <<>>
    /\ paobjnr_matches = <<>>
    /\ cds_field_matches = <<>>
    /\ results = <<>>
    /\ response = None
    /\ previous = None

\* A request of several short units.
Init == \E us \in ListsOf(ShortUnits, MaxUnits) : Entry(us)

\* A request of one unit with a longer text.
InitText ==
    \E code \in CodesOf(TextsOf(MaxPhrases) \cup Scenarios) :
        Entry(<<UnitOf(ProgramIdent, code)>>)

\* Lines 110-113: src = u.code or ""; var_types = extract_variable_types(src).
\* finditer (line 66) raises on anything but a text, and the request ends.
ExtractTypes ==
    /\ pc = "extract"
    /\ idx <= Len(units)
    /\ src' = SrcOf(units[idx])
    /\ IF IsText(src')
       THEN var_types' = extract_variable_types(src'.v) /\ pc' = "usage"
       ELSE var_types' = var_types /\ pc' = "raised"
    /\ UNCHANGED <<units, idx, paobjnr_matches, cds_field_matches, results,
                   response, previous>>

\* Line 116: paobjnr_matches = find_paobjnr_usage(src, var_types)
FindUsage ==
    /\ pc = "usage"
    /\ paobjnr_matches' = find_paobjnr_usage(src.v, var_types)
    /\ pc' = "fields"
    /\ UNCHANGED <<units, idx, src, var_types, cds_field_matches, results,
                   response, previous>>

\* Line 119: cds_field_matches = find_deprecated_cds_fields(src)
FindFields ==
    /\ pc = "fields"
    /\ cds_field_matches' = find_deprecated_cds_fields(src.v)
    /\ pc' = "annotate"
    /\ UNCHANGED <<units, idx, src, var_types, paobjnr_matches, results,
                   response, previous>>

\* Lines 121-153: the metadata of the unit and its entry of results.
Annotate ==
    /\ pc = "annotate"
    /\ results' = Append(results,
                         AnnotatedUnit(units[idx],
                                       Metadata(paobjnr_matches, cds_field_matches)))
    /\ idx' = idx + 1
    /\ pc' = "extract"
    /\ UNCHANGED <<units, src, var_types, paobjnr_matches, cds_field_matches,
                   response, previous>>

\* Line 155: return results, once the loop is through.
Return ==
    /\ pc = "extract"
    /\ idx > Len(units)
    /\ response' = PyList(results)
    /\ pc' = "done"
    /\ UNCHANGED <<units, idx, src, var_types, paobjnr_matches,
                   cds_field_matches, results, previous>>

\* The same list of units is posted a second time.
Repeat ==
    /\ pc = "done"
    /\ previous = None
    /\ previous' = response
    /\ response' = None
    /\ results' = <<>>
    /\ idx' = 1
    /\ pc' = "extract"
    /\ UNCHANGED <<units, src, var_types, paobjnr_matches, cds_field_matches>>

Next ==
    \/ ExtractTypes
    \/ FindUsage
    \/ FindFields
    \/ Annotate
    \/ Return
    \/ Repeat

Spec == Init /\ [][Next]_vars

SpecText == InitText /\ [][Next]_vars

(***************************************************************************)
(* What the claims speak of.                                               *)
(***************************************************************************)

\* The source text of a unit as the claims read it: absent text is no text.
UnitText(u) == IF u.code = None THEN "" ELSE u.code.v

\* The findings of one kind among fs, in their order.
FindingsOfType(fs, type) == SelectSeq(fs, LAMBDA f : f.type = type)

InitialChecks(fs) == FindingsOfType(fs, "PAOBJNR_CHECK")

DeprecatedFields(fs) == FindingsOfType(fs, "CDS_FIELD_REPLACEMENT")

SpanOf(f) == <<f.start_char_in_unit, f.end_char_in_unit>>

\* The syntactic matches 'V IS [NOT] INITIAL' of a text.
SyntacticChecks(txt) == FindIter("PAOBJNR_INITIAL_RE", txt)

\* The request has returned: results holds an entry for every unit.
Returned == pc = "done"

(***************************************************************************)
(* C1  Type filtering.  For every unit and every syntactic match           *)
(* 'V IS [NOT] INITIAL' of its text, an initial-check finding with the     *)
(* span of the match is in the unit's findings if and only if the map of   *)
(* extract_variable_types gives 'rkeobjnr' for V in lower case; there is   *)
(* one such finding per reported match; and the findings on a name are as  *)
(* many as its checks when the name is declared with the deprecated type,  *)
(* none otherwise.                                                         *)
(***************************************************************************)
C1_TypeFiltering ==
    Returned =>
        \A i \in 1..Len(units) :
            LET txt == UnitText(units[i])
                ms == SyntacticChecks(txt)
                fs == InitialChecks(results[i].copa_usage)
                decls == extract_variable_types(txt)
                NameOf(k) == Lower(Group(txt, ms[k].var))
                Deprecated(name) == DictGet(decls, name) = PyStr("rkeobjnr")
                Reported == {k \in 1..Len(ms) : Deprecated(NameOf(k))}
            IN  /\ {SpanOf(fs[j]) : j \in 1..Len(fs)}
                      = {<<ms[k].start, ms[k].end>> : k \in Reported}
                /\ Len(fs) = Cardinality(Reported)
                /\ \A k \in 1..Len(ms) :
                      Cardinality({j \in 1..Len(fs) :
                                      Lower(fs[j].used_fields[1]) = NameOf(k)})
                        = IF Deprecated(NameOf(k))
                          THEN Cardinality({h \in 1..Len(ms) : NameOf(h) = NameOf(k)})
                          ELSE 0

\* A unit with one check, on a variable written in another letter case than
\* its declaration, and one finding for it.
C1_Witness ==
    /\ Returned
    /\ \E i \in 1..Len(units) :
          LET txt == UnitText(units[i])
              ms == SyntacticChecks(txt)
              fs == InitialChecks(results[i].copa_usage)
          IN  /\ Len(ms) = 1
              /\ Len(fs) = 1
              /\ Group(txt, ms[1].var) # Lower(Group(txt, ms[1].var))
              /\ fs[1].used_fields = <<Group(txt, ms[1].var)>>

\* Whether NOT follows 'V IS' in the original text of a check on V.
OriginalIsNegated(original, V) ==
    LET a == SpaceRun(original, Len(V))
        b == SpaceRun(original, a + 2)
    IN  LitAt(original, a, "IS") /\ LitAt(original, b, "NOT")

(***************************************************************************)
(* C2  Boolean sense.  Every initial-check finding names one identifier V, *)
(* written as in the source text at the start of the finding's span and    *)
(* followed there by white space; its suggested statement is               *)
(* cl_fco_copa_paobjnr=>is_initial( V ) compared with abap_false when NOT  *)
(* follows IS in the original text, and with abap_true when it does not.   *)
(***************************************************************************)
C2_BooleanSense ==
    Returned =>
        \A i \in 1..Len(units) :
            LET txt == UnitText(units[i])
                fs == InitialChecks(results[i].copa_usage)
            IN  \A j \in 1..Len(fs) :
                    LET original == Slice(txt, fs[j].start_char_in_unit,
                                          fs[j].end_char_in_unit)
                        V == fs[j].used_fields[1]
                    IN  /\ Len(fs[j].used_fields) = 1
                        /\ V # ""
                        /\ Slice(original, 0, Len(V)) = V
                        /\ IsSpaceChar(CharAt(original, Len(V)))
                        /\ fs[j].suggested_statement
                             = "cl_fco_copa_paobjnr=>is_initial( " \o V \o " ) = "
                                 \o (IF OriginalIsNegated(original, V)
                                     THEN "abap_false" ELSE "abap_true")

\* A unit with a finding for 'V IS INITIAL' and one for 'V IS NOT INITIAL'.
C2_Witness ==
    /\ Returned
    /\ \E i \in 1..Len(units) :
          LET fs == InitialChecks(results[i].copa_usage)
          IN  \E j, k \in 1..Len(fs) :
                  /\ fs[j].suggested_statement
                       = "cl_fco_copa_paobjnr=>is_initial( lv ) = abap_true"
                  /\ fs[k].suggested_statement
                       = "cl_fco_copa_paobjnr=>is_initial( Lv ) = abap_false"

\* The offsets where the field name stands in any letter case.
Occurrences(txt) ==
    {p \in 0..(Len(txt) - 20) :
        /\ LowerChar(CharAt(txt, p)) = "p"
        /\ Lower(Slice(txt, p, p + 20)) = "profitabilitysegment"}

\* Those where it stands as a whole word.
WholeWordOccurrences(txt) ==
    {p \in Occurrences(txt) :
        ~IsWordChar(CharAt(txt, p - 1)) /\ ~IsWordChar(CharAt(txt, p + 20))}

(***************************************************************************)
(* C3  Deprecated-field detection.  The deprecated-field findings of a     *)
(* unit are, one each and in number, the offsets of its text where         *)
(* 'ProfitabilitySegment' stands in any letter case with no word character *)
(* before or after it; each spans the 20 characters of the name and        *)
(* suggests the field ProfitabilitySegment_2.  The text alone decides      *)
(* them.                                                                   *)
(***************************************************************************)
C3_DeprecatedFieldDetection ==
    Returned =>
        \A i \in 1..Len(units) :
            LET txt == UnitText(units[i])
                ds == DeprecatedFields(results[i].copa_usage)
            IN  /\ Len(ds) = Cardinality(WholeWordOccurrences(txt))
                /\ {ds[j].start_char_in_unit : j \in 1..Len(ds)}
                      = WholeWordOccurrences(txt)
                /\ \A j \in 1..Len(ds) :
                      /\ ds[j].end_char_in_unit = ds[j].start_char_in_unit + 20
                      /\ ds[j].suggested_fields = PyList(<<"ProfitabilitySegment_2">>)

\* A unit where the name stands inside a longer identifier and, in another
\* letter case, as a whole word: one finding, for the latter.
C3_Witness ==
    /\ Returned
    /\ \E i \in 1..Len(units) :
          LET txt == UnitText(units[i])
              ds == DeprecatedFields(results[i].copa_usage)
          IN  /\ Len(ds) = 1
              /\ Cardinality(Occurrences(txt)) >= 2
              /\ Slice(txt, ds[1].start_char_in_unit, ds[1].end_char_in_unit)
                    # "ProfitabilitySegment"

\* t is 'V IS [NOT] INITIAL' from its first to its last character.
IsWholeCheck(t, V) ==
    LET a == SpaceRun(t, Len(V))
        b == SpaceRun(t, a + 2)
        c == SpaceRun(t, b + 3)
    IN  /\ V # ""
        /\ Slice(t, 0, Len(V)) = V
        /\ a > Len(V)
        /\ LitAt(t, a, "IS")
        /\ b > a + 2
        /\ \/ LitAt(t, b, "INITIAL") /\ Len(t) = b + 7
           \/ LitAt(t, b, "NOT") /\ c > b + 3 /\ LitAt(t, c, "INITIAL")
                /\ Len(t) = c + 7

(***************************************************************************)
(* C4  Span correctness.  For every finding of every unit,                 *)
(* 0 <= start_char_in_unit <= end_char_in_unit <= len(code), and the text  *)
(* of the unit between the two offsets is the whole matched text: for an   *)
(* initial check the identifier, white space, IS, white space, NOT and     *)
(* white space if negated, INITIAL; for a deprecated field the field name. *)
(***************************************************************************)
C4_SpanCorrectness ==
    Returned =>
        \A i \in 1..Len(units) :
            LET fs == results[i].copa_usage
            IN  \A j \in 1..Len(fs) :
                    LET b == fs[j].start_char_in_unit
                        e == fs[j].end_char_in_unit
                    IN  /\ units[i].code # None
                        /\ 0 <= b /\ b <= e /\ e <= Len(units[i].code.v)
                        /\ IF fs[j].type = "PAOBJNR_CHECK"
                           THEN IsWholeCheck(Slice(units[i].code.v, b, e),
                                             fs[j].used_fields[1])
                           ELSE Lower(Slice(units[i].code.v, b, e))
                                    = "profitabilitysegment"

\* A unit with a negated check and a field name, both with text before and
\* after them.
C4_Witness ==
    /\ Returned
    /\ \E i \in 1..Len(units) :
          LET fs == results[i].copa_usage
          IN  \E j, k \in 1..Len(fs) :
                  /\ fs[j].type = "PAOBJNR_CHECK"
                  /\ fs[j].start_char_in_unit > 0
                  /\ OriginalIsNegated(
                         Slice(UnitText(units[i]), fs[j].start_char_in_unit,
                               fs[j].end_char_in_unit),
                         fs[j].used_fields[1])
                  /\ fs[k].type = "CDS_FIELD_REPLACEMENT"
                  /\ fs[k].end_char_in_unit < Len(UnitText(units[i]))

(***************************************************************************)
(* C5  Order of the findings of a unit: the initial-check findings come    *)
(* first, the deprecated-field findings after them, and in each of the two *)
(* groups the start offsets increase strictly.                             *)
(***************************************************************************)
C5_FindingsOrder ==
    Returned =>
        \A i \in 1..Len(units) :
            LET fs == results[i].copa_usage
            IN  \A j, k \in 1..Len(fs) :
                    j < k =>
                        /\ ~(fs[j].type = "CDS_FIELD_REPLACEMENT"
                               /\ fs[k].type = "PAOBJNR_CHECK")
                        /\ fs[j].type = fs[k].type =>
                               fs[j].start_char_in_unit < fs[k].start_char_in_unit

\* A unit whose field name stands before its check: the check's finding is
\* first all the same.
C5_Witness ==
    /\ Returned
    /\ \E i \in 1..Len(units) :
          LET fs == results[i].copa_usage
          IN  \E j, k \in 1..Len(fs) :
                  /\ j < k
                  /\ fs[j].type = "PAOBJNR_CHECK"
                  /\ fs[k].type = "CDS_FIELD_REPLACEMENT"
                  /\ fs[k].start_char_in_unit < fs[j].start_char_in_unit

\* The declarations extract_variable_types recognises in a text.
Declarations(txt) == FindIter("DATA_DECL_RE", txt)

DeclaredName(txt, m) == Lower(Group(txt, m.var))

DeclaredType(txt, m) == Lower(Group(txt, m.type))

(***************************************************************************)
(* C8  Last write wins.  Once extract_variable_types has scanned the text  *)
(* of a unit, the map's keys are the lower-cased names of the recognised   *)
(* declarations, and each name maps to the lower-cased type of the last    *)
(* of its declarations in the text.                                        *)
(***************************************************************************)
C8_LastWriteWins ==
    pc = "usage" =>
        LET ds == Declarations(src.v)
        IN  /\ DOMAIN var_types = {DeclaredName(src.v, ds[k]) : k \in 1..Len(ds)}
            /\ \A k \in 1..Len(ds) :
                  (\A h \in (k + 1)..Len(ds) :
                       DeclaredName(src.v, ds[h]) # DeclaredName(src.v, ds[k]))
                    => var_types[DeclaredName(src.v, ds[k])] = DeclaredType(src.v, ds[k])

\* A text that declares a name as rkeobjnr and later, in another letter
\* case, with another type: the map holds the other type.
C8_Witness ==
    /\ pc = "usage"
    /\ LET ds == Declarations(src.v)
       IN  \E k, h \in 1..Len(ds) :
               /\ k < h
               /\ DeclaredName(src.v, ds[k]) = DeclaredName(src.v, ds[h])
               /\ Group(src.v, ds[k].var) # Group(src.v, ds[h].var)
               /\ DeclaredType(src.v, ds[k]) = "rkeobjnr"
               /\ DeclaredType(src.v, ds[h]) # "rkeobjnr"
               /\ var_types[DeclaredName(src.v, ds[h])] = DeclaredType(src.v, ds[h])

\* The type of the last of the declarations ds of a name in a text, None
\* without one.
LastDeclaredType(txt, ds, name) ==
    LET K == {k \in 1..Len(ds) : DeclaredName(txt, ds[k]) = name}
    IN  IF K = {} THEN None
        ELSE PyStr(DeclaredType(txt, ds[CHOOSE k \in K : \A h \in K : h <= k]))

(***************************************************************************)
(* C10  The place of a declaration does not matter.  When                  *)
(* find_paobjnr_usage runs, var_types knows every declaration of the       *)
(* unit's text; and a check is reported if and only if the last            *)
(* declaration of its variable anywhere in the text, before or after the   *)
(* check, has the type rkeobjnr.                                           *)
(***************************************************************************)
C10_DeclarationPlace ==
    /\ pc = "usage" =>
          LET ds == Declarations(src.v)
          IN  \A k \in 1..Len(ds) : DeclaredName(src.v, ds[k]) \in DOMAIN var_types
    /\ Returned =>
          \A i \in 1..Len(units) :
              LET txt == UnitText(units[i])
                  ms == SyntacticChecks(txt)
                  ds == Declarations(txt)
                  fs == InitialChecks(results[i].copa_usage)
              IN  \A k \in 1..Len(ms) :
                      (\E j \in 1..Len(fs) : SpanOf(fs[j]) = <<ms[k].start, ms[k].end>>)
                        <=> LastDeclaredType(txt, ds, Lower(Group(txt, ms[k].var)))
                               = PyStr("rkeobjnr")

\* A reported check that stands between a declaration of its variable with
\* another type and a later one with the type rkeobjnr.
C10_Witness ==
    /\ Returned
    /\ \E i \in 1..Len(units) :
          LET txt == UnitText(units[i])
              ds == Declarations(txt)
              fs == InitialChecks(results[i].copa_usage)
          IN  \E j \in 1..Len(fs) : \E k, h \in 1..Len(ds) :
                  /\ DeclaredName(txt, ds[k]) = Lower(fs[j].used_fields[1])
                  /\ DeclaredName(txt, ds[h]) = Lower(fs[j].used_fields[1])
                  /\ DeclaredType(txt, ds[k]) # "rkeobjnr"
                  /\ ds[k].end <= fs[j].start_char_in_unit
                  /\ fs[j].end_char_in_unit <= ds[h].start

(***************************************************************************)
(* C6  Order preservation.  The response has one entry per unit of the     *)
(* request, in the order of the request; the entry at a position has the   *)
(* eight fields of the unit at that position with the unit's values, and   *)
(* copa_usage as its only other field.                                     *)
(***************************************************************************)
C6_OrderPreservation ==
    Returned =>
        /\ Len(response.v) = Len(units)
        /\ \A i \in 1..Len(units) :
              /\ DOMAIN response.v[i]
                    = {"pgm_name", "inc_name", "type", "name",
                       "class_implementation", "start_line", "end_line", "code",
                       "copa_usage"}
              /\ \A f \in DOMAIN units[i] : response.v[i][f] = units[i][f]

\* A request of two units that differ, one with absent fields and no text,
\* the other with quotes, a backslash and a negative line number.
C6_Witness ==
    /\ Returned
    /\ Len(units) = 2
    /\ units[1].name = None
    /\ units[1].code = None
    /\ units[2].start_line = PyInt(-1)
    /\ units[2].name = PyStr("GET\\SEGMENT")
    /\ units[2].code = PyStr("Lv is\nNOT  initial")
    /\ response.v[2].code = units[2].code

(***************************************************************************)
(* C7  Empty input.  No request raises; a unit whose code is None or the   *)
(* empty string has an empty list of findings in the response; and the     *)
(* response to an empty list of units is an empty list.                    *)
(***************************************************************************)
C7_EmptyInput ==
    /\ pc # "raised"
    /\ Returned =>
          /\ units = <<>> => response = PyList(<<>>)
          /\ \A i \in 1..Len(units) :
                units[i].code \in {None, PyStr("")} =>
                    /\ i <= Len(response.v)
                    /\ response.v[i].copa_usage = <<>>

\* A unit without text after a unit with a finding.
C7_Witness ==
    /\ Returned
    /\ Len(units) = 2
    /\ response.v[1].copa_usage # <<>>
    /\ units[2].code = None
    /\ response.v[2].copa_usage = <<>>

====
